---- MODULE Spec2Model ----
(***************************************************************************)
(* Model of connector/v03x.py: the client-side proxy model of an embedded  *)
(* controller.  The controller object (BaseController) turns every device  *)
(* operation into one synchronous round trip; the device and the id        *)
(* service are external collaborators whose answers are nondeterministic.  *)
(*                                                                         *)
(* State: the device (objects, profiles, stored system id), the global id  *)
(* pool, a proxy the caller holds, the transport's table of pending        *)
(* requests, and for the operation that ran last: its call, the requests   *)
(* it sent in order (log) and how it ended (result).                       *)
(***************************************************************************)
EXTENDS Integers, Sequences, FiniteSets, TLC

VARIABLES
    area,       \* which group of operations this run exercises (see Next)
    objs,       \* device: the id-chains at which an object exists
    profiles,   \* device: the profile ids that exist
    active,     \* device: the active profile id, -1 when none
    sysId,      \* device: the stored system id byte (system slot 0)
    idPool,     \* id service: the ids returned to the global pool
    lastActivate, \* history: the profile id given to the last activate_profile that
                  \* succeeded (-1 for None) with no other profile-changing
                  \* operation since; -2 when there is none
    proxy,      \* client: the fields of a proxy object the caller holds
    pending,    \* transport: the number of requests that timed out and are
                \* still registered in its table of pending requests
    call,       \* the operation that ran last and its arguments
    log,        \* the requests that operation sent, in order
    result      \* how it ended: a value, or the exception raised

vars == <<area, objs, profiles, active, sysId, idPool, lastActivate, proxy, pending,
          call, log, result>>

---------------------------------------------------------------------------
(* Bounds of the model *)

MaxSlot == 1
MaxProfile == 2
MaxDepth == 3
MaxPending == 1
CodecSpan == 2

Slots == 0..MaxSlot
ProfileIds == 0..(MaxProfile - 1)

---------------------------------------------------------------------------
(* protocol.v03x helpers used by the codecs *)

signed_byte(b) == IF b >= 128 THEN b - 256 ELSE b

unsigned_byte(v) == IF v < 0 THEN v + 256 ELSE v

\* Python int(a / b) for b > 0: the quotient truncated towards zero
TruncDiv(a, b) == IF a >= 0 THEN a \div b ELSE -((-a) \div b)

---------------------------------------------------------------------------
(* ValueCodec: decoders and encoders *)

LongDecode(buf) ==
    ((((signed_byte(buf[4]) * 256) + buf[3]) * 256) + buf[2]) * 256 + buf[1]

ShortDecode(buf) == (signed_byte(buf[2]) * 256) + buf[1]

ByteDecode(buf) == signed_byte(buf[1])

ByteEncode(value) == <<unsigned_byte(value)>>

\* Variant: a negative value is not biased by 64 * 1024
ShortEncode_unbiased(value) ==
    <<value % 256, unsigned_byte(TruncDiv(value, 256))>>

ShortEncode(value) ==
    LET v == IF value < 0 THEN value + 64 * 1024 ELSE value
    IN  <<v % 256, unsigned_byte(TruncDiv(v, 256))>>

\* LongEncoder: `value += 1 << 32` when negative, then four times
\* `value % 256; value = int(value / 256)`.  2^32 is beyond TLC's integers,
\* so for a negative value the first byte and quotient are taken before the
\* bias is added: (v + 2^32) % 256 = v % 256 and
\* (v + 2^32) div 256 = (v div 256) + 2^24, both exact.
LongEncode(value) ==
    LET v1 == IF value < 0 THEN (value \div 256) + 16777216 ELSE TruncDiv(value, 256)
        v2 == TruncDiv(v1, 256)
        v3 == TruncDiv(v2, 256)
    IN  <<value % 256, v1 % 256, v2 % 256, v3 % 256>>

\* encoded_len() of the three integer codecs
codec_len(codec) ==
    CASE codec = "Byte"  -> 1
      [] codec = "Short" -> 2
      [] codec = "Long"  -> 4

\* ValueEncoder.encode / ValueDecoder.decode of an integer codec
codec_encode(codec, value) ==
    CASE codec = "Byte"  -> ByteEncode(value)
      [] codec = "Short" -> ShortEncode(value)
      [] codec = "Long"  -> LongEncode(value)

codec_decode(codec, buf) ==
    CASE codec = "Byte"  -> ByteDecode(buf)
      [] codec = "Short" -> ShortDecode(buf)
      [] codec = "Long"  -> LongDecode(buf)

\* Variant: the scale sliced one byte early, buf[3:5]
SystemTimeDecode_overlap(buf) ==
    <<LongDecode(SubSeq(buf, 1, 4)), ShortDecode(SubSeq(buf, 4, 5))>>

SystemTimeDecode(buf) ==
    <<LongDecode(SubSeq(buf, 1, 4)), ShortDecode(SubSeq(buf, 5, 6))>>

SystemTimeEncode(value) == LongEncode(value[1]) \o ShortEncode(value[2])

---------------------------------------------------------------------------
(* AddressTree: containers and id-chains.  A container proxy is the root   *)
(* or a (container, slot) pair; the id-chain is always derived.            *)

RootContainer == [kind |-> "root"]

Container(container, slot) ==
    [kind |-> "container", container |-> container, slot |-> slot]

RECURSIVE id_chain(_)
\* Variant: the slot alone, the container's own chain dropped
id_chain_for_flat(c, slot) == <<slot>>

id_chain_for(c, slot) ==
    IF c.kind = "root" THEN <<slot>> ELSE Append(id_chain(c), slot)

id_chain(c) ==
    IF c.kind = "root" THEN <<>> ELSE id_chain_for(c.container, c.slot)

RECURSIVE container_for(_)
\* Variant: every container made a child of the root
container_for_last(chain) ==
    IF chain = <<>> THEN RootContainer ELSE Container(RootContainer, chain[Len(chain)])

\* container_for: `c = root; for x in id_chain: c = Container(self, c, x)`
container_for(chain) ==
    IF chain = <<>> THEN RootContainer
    ELSE Container(container_for(SubSeq(chain, 1, Len(chain) - 1)), chain[Len(chain)])

container_chain_and_id(chain) ==
    <<SubSeq(chain, 1, Len(chain) - 1), chain[Len(chain)]>>

\* The container proxies the operations are tried with: the root and a
\* dynamic container at slot 1 of the root.
Containers == {RootContainer, Container(RootContainer, 1)}

\* The addresses the device can hold an object at.
Addr == {id_chain_for(c, s) : c \in Containers, s \in Slots}

---------------------------------------------------------------------------
(* Capability model and type registry *)

None == [some |-> FALSE, v |-> <<>>]
Some(v) == [some |-> TRUE, v |-> v]

\* Python truthiness of an argument that is None, a tuple or a bytes object
Truthy(a) == a.some /\ a.v # <<>>

all_types == {"CurrentTicks", "DynamicContainer", "PersistentValue", "ValueProfile",
              "LogicActuator", "BangBangController", "PersistChangeValue"}

type_id(cls) ==
    CASE cls = "CurrentTicks"       -> 3
      [] cls = "DynamicContainer"   -> 4
      [] cls = "PersistentValue"    -> 5
      [] cls = "ValueProfile"       -> 6
      [] cls = "LogicActuator"      -> 7
      [] cls = "BangBangController" -> 8
      [] cls = "PersistChangeValue" -> 9

\* BuiltInObjectTypes.from_id: the class, or None for an unknown id
from_id(tid) ==
    IF \E c \in all_types : type_id(c) = tid
    THEN Some(CHOOSE c \in all_types : type_id(c) = tid)
    ELSE None

Returns(v) == [raises |-> FALSE, exc |-> "", value |-> v]
Throws(exc) == [raises |-> TRUE, exc |-> exc, value |-> <<>>]

\* cls.encode_definition(arg), arg a tuple or a bytes object
encode_definition(cls, arg) ==
    CASE cls \in {"CurrentTicks", "DynamicContainer"} -> Throws("ValueError")
      [] cls = "PersistentValue" ->
            IF arg = <<>> THEN Throws("ValueError") ELSE Returns(arg)
      [] cls = "PersistChangeValue" ->
            IF arg[2] < 0 THEN Throws("ValueError")
            ELSE Returns(ShortEncode(arg[1]) \o ShortEncode(arg[2]))
      [] OTHER -> Throws("AttributeError")

\* Variant: PersistChangeValue reads the two Shorts from the wrong halves
decode_definition_swapped(cls, data) ==
    CASE cls \in {"CurrentTicks", "DynamicContainer"} -> Throws("ValueError")
      [] cls = "PersistentValue" -> encode_definition(cls, data)
      [] cls = "PersistChangeValue" ->
            Returns(<<ShortDecode(SubSeq(data, 3, 4)), ShortDecode(SubSeq(data, 1, 2))>>)
      [] OTHER -> Throws("AttributeError")

\* cls.decode_definition(data_block)
decode_definition(cls, data) ==
    CASE cls \in {"CurrentTicks", "DynamicContainer"} -> Throws("ValueError")
      [] cls = "PersistentValue" -> encode_definition(cls, data)
      [] cls = "PersistChangeValue" ->
            Returns(<<ShortDecode(SubSeq(data, 1, 2)), ShortDecode(SubSeq(data, 3, 4))>>)
      [] OTHER -> Throws("AttributeError")

\* encoded_len() of a proxy class
encoded_len(cls) ==
    CASE cls = "CurrentTicks"       -> 4
      [] cls = "PersistentValue"    -> 0
      [] cls = "PersistChangeValue" -> 2
      [] cls = "SystemID"           -> 1
      [] cls = "SystemTime"         -> 6

\* obj.encode(value) of a writable proxy class
encode(cls, value) ==
    CASE cls = "PersistChangeValue" -> ShortEncode(value)
      [] cls = "SystemTime"         -> SystemTimeEncode(value)
      [] OTHER                      -> value          \* BufferEncoder

\* obj.decode(buf) of a readable proxy class
decode(cls, buf) ==
    CASE cls = "CurrentTicks"       -> LongDecode(buf)
      [] cls = "PersistChangeValue" -> ShortDecode(buf)
      [] cls = "SystemTime"         -> SystemTimeDecode(buf)
      [] OTHER                      -> buf            \* BufferDecoder

\* The number of bytes the decoder of a class indexes: buf[3] for a Long,
\* buf[1] for a Short, both slices in full for SystemTime; a buffer decoder
\* indexes nothing
decode_reach(cls) ==
    CASE cls = "CurrentTicks"       -> 4
      [] cls = "PersistChangeValue" -> 2
      [] cls = "SystemTime"         -> 6
      [] OTHER                      -> 0

\* obj.decode(buf) of a buffer of any length: indexing past the end of buf
\* raises IndexError, bytes past those the decoder indexes are not looked at
decode_or_raise(cls, buf) ==
    IF Len(buf) < decode_reach(cls) THEN Throws("IndexError") ELSE Returns(decode(cls, buf))

\* A client-side proxy: ContainedObject.__init__
Proxy(cls, container, slot) == [cls |-> cls, container |-> container, slot |-> slot]

obj_id_chain(obj) == id_chain_for(obj.container, obj.slot)

\* The controller's second root container, the parent of the system objects
sysroot == RootContainer

system_id == Proxy("SystemID", sysroot, 0)
system_time == Proxy("SystemTime", sysroot, 1)

\* Profile(controller, profile_id), and the None that stands for no profile
Profile(pid) == [some |-> TRUE, profile_id |-> pid]
NoProfile == [some |-> FALSE, profile_id |-> 0]

\* Variant: the profile tested for truth by its id, so that id 0 counts as None
id_for_falsy_zero(p) == IF p.some /\ p.profile_id # 0 THEN p.profile_id ELSE -1

id_for(p) == IF p.some THEN p.profile_id ELSE -1

profile_for(pid) == IF pid >= 0 THEN Profile(pid) ELSE NoProfile

---------------------------------------------------------------------------
(* The result funnel.  A resolved future is a response record: none is     *)
(* the absence a timeout yields (result_from returns None).                *)

Code(n) == [none |-> FALSE, code |-> n]
Absent == [none |-> TRUE, code |-> 0]
Data(d) == [none |-> FALSE, data |-> d]
AbsentData == [none |-> TRUE, data |-> <<>>]

\* Variant: allow_fail ignored, every negative code raises
handle_error_strict(resp, allow_fail) ==
    IF resp.none THEN Throws("TypeError")
    ELSE IF resp.code < 0 THEN Throws("FailedOperationError")
    ELSE Returns(resp.code)

\* Variant: the error code handed back without being looked at
handle_error_lenient(resp, allow_fail) ==
    IF resp.none THEN Throws("TypeError") ELSE Returns(resp.code)

\* Variant: None ordered below 0, so that a tolerated call swallows a timeout
handle_error_none_negative(resp, allow_fail) ==
    IF (resp.none \/ resp.code < 0) /\ ~allow_fail THEN Throws("FailedOperationError")
    ELSE Returns(IF resp.none THEN -1 ELSE resp.code)

\* _handle_error: `error < 0 and not allow_fail` on the resolved value;
\* None < 0 raises TypeError before allow_fail is looked at
handle_error(resp, allow_fail) ==
    IF resp.none THEN Throws("TypeError")
    ELSE IF resp.code < 0 /\ ~allow_fail THEN Throws("FailedOperationError")
    ELSE Returns(resp.code)

\* _fetch_data_block: `if not data: raise FailedOperationError`
fetch_data_block(resp) ==
    IF resp.none \/ resp.data = <<>> THEN Throws("FailedOperationError")
    ELSE Returns(resp.data)

\* Variant: the echo is not compared
write_check_none(data, encoded) == Returns(<<>>)

\* _write_value, after the round trip: `if data != encoded: raise`
write_check(data, encoded) ==
    IF data # encoded THEN Throws("FailedOperationError") ELSE Returns(<<>>)

\* One round trip: the request as the transport (or the id service) sees it
\* and what its future resolved to
Req(cmd, chain, arg, data, resp) ==
    [cmd |-> cmd, chain |-> chain, arg |-> arg, data |-> data, resp |-> resp]

Ok(v) == [status |-> "ok", exc |-> "", site |-> "", value |-> v]
Raise(exc, site) == [status |-> "raised", exc |-> exc, site |-> site, value |-> <<>>]

---------------------------------------------------------------------------
(* The device and the id service: external collaborators.  Each operator   *)
(* gives the set of outcomes of one request: the resolved response and the *)
(* device state it leaves.  A request that times out may or may not have   *)
(* been carried out.                                                       *)

ErrorCodes == {-1}

IsPrefix(p, c) == Len(p) <= Len(c) /\ SubSeq(c, 1, Len(p)) = p

Without(o, chain) == {a \in o : ~IsPrefix(chain, a)}

DevDeleteObject(o, chain) ==
    {[resp |-> Code(0), objs |-> Without(o, chain)] : x \in {chain} \cap o}
    \cup {[resp |-> Code(e), objs |-> o] : e \in ErrorCodes}
    \cup {[resp |-> Absent, objs |-> o2] : o2 \in {o, Without(o, chain)}}

CanCreate(o, chain) ==
    /\ chain \in Addr
    /\ chain \notin o
    /\ Len(chain) = 1 \/ SubSeq(chain, 1, Len(chain) - 1) \in o

DevCreateObject(o, chain, tid, data) ==
    {[resp |-> Code(0), objs |-> o \cup {chain}] : x \in {chain} \cap {a \in Addr : CanCreate(o, a)}}
    \cup {[resp |-> Code(e), objs |-> o] : e \in ErrorCodes}
    \cup {[resp |-> Absent, objs |-> o2] :
            o2 \in {o} \cup {o \cup {chain} : x \in {chain} \cap {a \in Addr : CanCreate(o, a)}}}

FreeSlots(o, cchain) == {s \in Slots : Append(cchain, s) \notin o}

DevNextSlot(o, cchain) ==
    {Code(s) : s \in {t \in FreeSlots(o, cchain) : \A u \in FreeSlots(o, cchain) : t <= u}}
    \cup {Code(e) : e \in ErrorCodes}
    \cup {Absent}

\* The blocks a read of a user object may bring back, by requested length
\* (a PersistentValue asks for 0 bytes, "not known", and gets its block).
ReadBlocks(len) ==
    CASE len = 4 -> {<<1, 0, 0, 0>>, <<255, 255, 255, 255>>}
      [] len = 2 -> {<<100, 0>>, <<254, 255>>}
      [] len = 6 -> {<<1, 0, 0, 0, 2, 0>>, <<255, 255, 255, 255, 254, 255>>}
      [] OTHER   -> {<<7>>}

\* Answers one byte short of the requested length and one byte past it
WrongLength(len) ==
    CASE len = 4 -> {<<1, 0, 0>>, <<1, 0, 0, 0, 9>>}
      [] len = 2 -> {<<100>>, <<100, 0, 9>>}
      [] len = 6 -> {<<1, 0, 0, 0, 2>>, <<1, 0, 0, 0, 2, 0, 9>>}
      [] OTHER   -> {}

DevReadValue(chain, len) ==
    {Data(b) : b \in ReadBlocks(len) \cup WrongLength(len)} \cup {Data(<<>>), AbsentData}

\* An echo that is not what was sent
Corrupt(bytes) ==
    IF bytes = <<>> THEN <<0>> ELSE [bytes EXCEPT ![1] = (@ + 1) % 256]

DevWriteValue(chain, bytes) ==
    {Data(bytes), Data(Corrupt(bytes)), Data(<<>>), AbsentData}

\* System slot 0 holds the id byte; the device echoes what it stored.
DevReadSystemValue(sid, chain, len) ==
    IF chain = <<0>> THEN {Data(<<sid>>), Data(<<>>), AbsentData}
    ELSE DevReadValue(chain, len)

DevWriteSystemValue(sid, chain, bytes) ==
    IF chain = <<0>> /\ bytes # <<>> THEN
        {[resp |-> Data(bytes), sysId |-> bytes[1]],
         [resp |-> Data(Corrupt(bytes)), sysId |-> sid],
         [resp |-> Data(<<>>), sysId |-> sid],
         [resp |-> AbsentData, sysId |-> sid],
         [resp |-> AbsentData, sysId |-> bytes[1]]}
    ELSE {[resp |-> r, sysId |-> sid] : r \in DevWriteValue(chain, bytes)}

\* Profiles: create hands out the lowest free id; deleting the active
\* profile leaves none active; activate takes an existing id or -1.
FreeProfiles(ps) == ProfileIds \ ps

DevCreateProfile(ps) ==
    {[resp |-> Code(i), profiles |-> ps \cup {i}] :
        i \in {j \in FreeProfiles(ps) : \A k \in FreeProfiles(ps) : j <= k}}
    \cup {[resp |-> Code(e), profiles |-> ps] : e \in ErrorCodes}
    \cup {[resp |-> Absent, profiles |-> ps]}
    \cup {[resp |-> Absent, profiles |-> ps \cup {i}] :
        i \in {j \in FreeProfiles(ps) : \A k \in FreeProfiles(ps) : j <= k}}

DevDeleteProfile(ps, act, pid) ==
    {[resp |-> Code(0), profiles |-> ps \ {pid}, active |-> IF act = pid THEN -1 ELSE act] :
        x \in {pid} \cap ps}
    \cup {[resp |-> Code(e), profiles |-> ps, active |-> act] : e \in ErrorCodes}
    \cup {[resp |-> Absent, profiles |-> ps, active |-> act]}
    \cup {[resp |-> Absent, profiles |-> ps \ {pid}, active |-> IF act = pid THEN -1 ELSE act] :
        x \in {pid} \cap ps}

DevActivateProfile(ps, act, pid) ==
    IF pid = -1 \/ pid \in ps
    THEN {[resp |-> Code(0), active |-> pid], [resp |-> Absent, active |-> pid],
          [resp |-> Absent, active |-> act]}
    ELSE {[resp |-> Code(e), active |-> act] : e \in ErrorCodes}
         \cup {[resp |-> Absent, active |-> act]}

\* list_profiles answers (active, id, id, ...), the ids in ascending order
ProfileSeq(ps) == SelectSeq([i \in 1..MaxProfile |-> i - 1], LAMBDA x : x \in ps)

DevListProfiles(ps, act) ==
    {Data(<<act>> \o ProfileSeq(ps)), Data(<<>>), AbsentData}

\* list_profile answers (id_chain, type_id, definition block) triples
Descriptor(chain, tid, data) == [id_chain |-> chain, obj_type |-> tid, data |-> data]

Listings ==
    {<<>>,
     <<Descriptor(<<2>>, 3, <<>>)>>,
     <<Descriptor(<<1>>, 4, <<>>), Descriptor(<<1, 0>>, 9, <<100, 0, 5, 0>>)>>,
     <<Descriptor(<<0>>, 5, <<7>>)>>,
     <<Descriptor(<<0>>, 42, <<>>)>>,
     <<Descriptor(<<0>>, 42, <<7>>)>>,
     <<Descriptor(<<0>>, 6, <<7>>)>>,
     <<Descriptor(<<0>>, 3, <<7>>)>>}

DevListProfile(pid) ==
    {[none |-> FALSE, data |-> l] : l \in Listings} \cup {AbsentData}

\* reset: bit 0 of the flags erases the eeprom, which wipes the device
Wiped == [objs |-> {}, profiles |-> {}, active |-> -1, sysId |-> 255]

DevReset(cur, flags) ==
    LET after == IF flags % 2 = 1 THEN Wiped ELSE cur
    IN  {[resp |-> Code(0), dev |-> after]}
        \cup {[resp |-> Code(e), dev |-> cur] : e \in ErrorCodes}
        \cup {[resp |-> Absent, dev |-> d] : d \in {cur, after}}

\* The ids the id service hands out
FreshIds == {8}

---------------------------------------------------------------------------
(* Inputs the operations are tried with *)

NoContainer == [some |-> FALSE, v |-> RootContainer]
NoSlot == [some |-> FALSE, v |-> 0]

\* create_object's container argument: None (the root is used) or a nested
\* container; passing the root itself is the same call as passing None
ContainerArgs == {NoContainer} \cup {Some(c) : c \in Containers \ {RootContainer}}
SlotArgs == {NoSlot} \cup {Some(s) : s \in Slots}

\* (obj_class, args) pairs for create_object: valid definitions, a negative
\* threshold, a value a Short cannot hold, an empty block, and arguments given
\* to a class that takes none
CreateArgs ==
    {<<"CurrentTicks", None>>, <<"CurrentTicks", Some(<<1>>)>>,
     <<"DynamicContainer", None>>,
     <<"PersistentValue", Some(<<7>>)>>, <<"PersistentValue", Some(<<>>)>>,
     <<"PersistChangeValue", Some(<<100, 5>>)>>,
     <<"PersistChangeValue", Some(<<100, -1>>)>>, <<"PersistChangeValue", Some(<<40000, 5>>)>>}

UserClasses == {"CurrentTicks", "DynamicContainer", "PersistentValue", "PersistChangeValue"}
ReadableClasses == {"CurrentTicks", "PersistentValue", "PersistChangeValue"}

\* (class, value) pairs for write_value and write_system_value
WriteArgs ==
    {<<"PersistChangeValue", 100>>, <<"PersistChangeValue", -2>>,
     <<"PersistentValue", <<7>>>>, <<"PersistentValue", <<>>>>}

SystemWriteArgs ==
    {<<system_id, <<7>>>>, <<system_id, <<255>>>>,
     <<system_time, <<1, 2>>>>, <<system_time, <<-1, -2>>>>}

ProfileArgs == {Profile(i) : i \in 0..MaxProfile}

\* The integers the codecs are tried with: all of a Byte, and for Short and
\* Long the values within CodecSpan of the ends of the range, of zero and of
\* each byte boundary
Around(n) == {n + d : d \in (-CodecSpan)..CodecSpan}

ByteValues == -128..127

ShortValues ==
    UNION {Around(n) : n \in {-32768 + CodecSpan, -256, 0, 256, 32767 - CodecSpan}}

LongValues ==
    UNION {Around(n) : n \in {(-2147483647 - 1) + CodecSpan, -16777216, -65536, -256, 0,
                              256, 65536, 16777216, 2147483647 - CodecSpan}}

CodecValues(codec) ==
    CASE codec = "Byte"  -> ByteValues
      [] codec = "Short" -> ShortValues
      [] codec = "Long"  -> LongValues

\* (obj_class, args) pairs whose definition is encoded and decoded again: no
\* arguments for the classes without a definition, blocks for PersistentValue,
\* and for PersistChangeValue pairs of Shorts and of integers a Short cannot
\* hold, with a threshold that is not negative
DefinitionArgs ==
    {<<"CurrentTicks", None>>, <<"DynamicContainer", None>>,
     <<"PersistentValue", Some(<<7>>)>>, <<"PersistentValue", Some(<<0>>)>>,
     <<"PersistentValue", Some(<<1, 2, 255>>)>>}
    \cup {<<"PersistChangeValue", Some(<<v, t>>)>> :
            v \in ShortValues \cup {40000, -40000}, t \in {0, 5, 32767, 40000}}

\* The 6-byte buffers SystemTime.decode is tried with
SystemTimeBuffers == [1..6 -> {0, 128, 255}]

\* The id-chains container_for is tried with: every chain of at most
\* MaxDepth slots, the empty one included
Chains == UNION {[1..k -> Slots] : k \in 0..MaxDepth}

---------------------------------------------------------------------------
(* BaseController: the operations *)

root_container == RootContainer

\* result_from, lines 622-626: a future that times out resolves to None and
\* nothing is unregistered (the todo of line 624), so every request of the
\* operation that timed out stays in the transport's table
TimedOut(lg) == Cardinality({i \in DOMAIN lg : lg[i].resp.none})

result_from_leaves(registered, lg) == registered + TimedOut(lg)

\* The end of an operation.  The table of pending requests is followed up
\* to MaxPending entries.
Done(c, lg, res) ==
    /\ result_from_leaves(pending, lg) <= MaxPending
    /\ call' = c
    /\ log' = lg
    /\ result' = res
    /\ pending' = result_from_leaves(pending, lg)

ObjectsDone(c, lg, res, o) ==
    /\ Done(c, lg, res)
    /\ objs' = o
    /\ UNCHANGED <<area, profiles, active, sysId, idPool, lastActivate, proxy>>

\* create_object, lines 584-587: encode the definition, decode it again and
\* compare.  data is what line 588 passes on (None as the empty block).
definition(obj_class, args) ==
    LET enc == IF args.some THEN encode_definition(obj_class, args.v) ELSE Returns(<<>>)
        dec == IF Truthy(args) /\ ~enc.raises
               THEN decode_definition(obj_class, enc.value) ELSE Returns(args.v)
    IN  IF enc.raises
        THEN [raises |-> TRUE, exc |-> enc.exc, site |-> "encode_definition", data |-> <<>>, dec |-> <<>>]
        ELSE IF dec.raises
        THEN [raises |-> TRUE, exc |-> dec.exc, site |-> "decode_definition", data |-> <<>>, dec |-> <<>>]
        ELSE IF dec.value # args.v
        THEN [raises |-> TRUE, exc |-> "TypeError", site |-> "mismatch", data |-> enc.value, dec |-> dec.value]
        ELSE [raises |-> FALSE, exc |-> "", site |-> "", data |-> enc.value, dec |-> dec.value]

\* create_object, lines 584-589, with the slot settled
create_tail(c, lg, o, container, slot) ==
    LET def == definition(c.obj_class, c.args)
        chain == id_chain_for(container, slot)
        tid == type_id(c.obj_class)
    IN  IF def.raises THEN ObjectsDone(c, lg, Raise(def.exc, def.site), o)
        ELSE \E d \in DevCreateObject(o, chain, tid, def.data) :
                LET lg2 == Append(lg, Req("create_object", chain, tid, def.data, d.resp))
                    h == handle_error(d.resp, FALSE)
                IN  IF h.raises THEN ObjectsDone(c, lg2, Raise(h.exc, "_create_object"), d.objs)
                    ELSE ObjectsDone(c, lg2, Ok(Proxy(c.obj_class, container, slot)), d.objs)

\* create_object, lines 581-583: clear the given slot, or ask for the next one
create_object(obj_class, args, container_arg, slot_arg) ==
    LET container == IF container_arg.some THEN container_arg.v ELSE root_container
        c == [op |-> "create_object", obj_class |-> obj_class, args |-> args,
              container |-> container, slot |-> slot_arg]
    IN  IF slot_arg.some
        THEN LET chain == id_chain_for(container, slot_arg.v)
             IN  \E d \in DevDeleteObject(objs, chain) :
                    LET lg == <<Req("delete_object", chain, 0, <<>>, d.resp)>>
                        h == handle_error(d.resp, TRUE)
                    IN  IF h.raises THEN ObjectsDone(c, lg, Raise(h.exc, "_delete_object_at"), d.objs)
                        ELSE create_tail(c, lg, d.objs, container, slot_arg.v)
        ELSE \E r \in DevNextSlot(objs, id_chain(container)) :
                    LET lg == <<Req("next_slot", id_chain(container), 0, <<>>, r)>>
                        h == handle_error(r, FALSE)
                    IN  IF h.raises THEN ObjectsDone(c, lg, Raise(h.exc, "next_slot"), objs)
                        ELSE create_tail(c, lg, objs, container, h.value)

CreateObject ==
    /\ area = "objects"
    /\ \E a \in CreateArgs, ca \in ContainerArgs, sa \in SlotArgs :
          create_object(a[1], a[2], ca, sa)

\* delete_object(obj) -> _delete_object_at(obj.id_chain)
DeleteObject ==
    /\ area = "objects"
    /\ \E cls \in UserClasses, container \in Containers, slot \in Slots :
          LET obj == Proxy(cls, container, slot)
              chain == obj_id_chain(obj)
              c == [op |-> "delete_object", obj |-> obj]
          IN  \E d \in DevDeleteObject(objs, chain) :
                LET lg == <<Req("delete_object", chain, 0, <<>>, d.resp)>>
                    h == handle_error(d.resp, FALSE)
                IN  IF h.raises THEN ObjectsDone(c, lg, Raise(h.exc, "_delete_object_at"), d.objs)
                    ELSE ObjectsDone(c, lg, Ok(<<>>), d.objs)

\* next_slot(container)
NextSlot ==
    /\ area = "objects"
    /\ \E container \in Containers :
          LET c == [op |-> "next_slot", container |-> container]
          IN  \E r \in DevNextSlot(objs, id_chain(container)) :
                LET lg == <<Req("next_slot", id_chain(container), 0, <<>>, r)>>
                    h == handle_error(r, FALSE)
                IN  IF h.raises THEN ObjectsDone(c, lg, Raise(h.exc, "next_slot"), objs)
                    ELSE ObjectsDone(c, lg, Ok(h.value), objs)

\* read_value(obj)
ReadValue ==
    /\ area = "values"
    /\ \E cls \in ReadableClasses, container \in Containers, slot \in Slots :
          LET obj == Proxy(cls, container, slot)
              chain == obj_id_chain(obj)
              c == [op |-> "read_value", obj |-> obj]
          IN  \E r \in DevReadValue(chain, encoded_len(cls)) :
                LET lg == <<Req("read_value", chain, encoded_len(cls), <<>>, r)>>
                    f == fetch_data_block(r)
                    v == decode_or_raise(cls, f.value)
                IN  IF f.raises THEN ObjectsDone(c, lg, Raise(f.exc, "_fetch_data_block"), objs)
                    ELSE IF v.raises THEN ObjectsDone(c, lg, Raise(v.exc, "decode"), objs)
                    ELSE ObjectsDone(c, lg, Ok(v.value), objs)

\* _write_value(obj, value, fn): encode, send, compare the echo
write_value(cmd, obj, value, resp) ==
    LET encoded == encode(obj.cls, value)
        lg == <<Req(cmd, obj_id_chain(obj), 0, encoded, resp)>>
        f == fetch_data_block(resp)
        w == write_check(f.value, encoded)
    IN  IF f.raises THEN [log |-> lg, result |-> Raise(f.exc, "_fetch_data_block")]
        ELSE IF w.raises THEN [log |-> lg, result |-> Raise(w.exc, "_write_value")]
        ELSE [log |-> lg, result |-> Ok(<<>>)]

\* write_value(obj, value)
WriteValue ==
    /\ area = "values"
    /\ \E a \in WriteArgs, container \in Containers, slot \in Slots :
          LET obj == Proxy(a[1], container, slot)
              c == [op |-> "write_value", obj |-> obj, value |-> a[2]]
          IN  \E r \in DevWriteValue(obj_id_chain(obj), encode(obj.cls, a[2])) :
                LET w == write_value("write_value", obj, a[2], r)
                IN  ObjectsDone(c, w.log, w.result, objs)

---------------------------------------------------------------------------
(* InstantiableObject.delete: a proxy the caller holds.  Its fields are    *)
(* those ContainedObject.__init__ sets: controller, container, slot.       *)

HeldProxy(cls, container, slot) ==
    [cls |-> cls, controller |-> TRUE, container |-> Some(container), slot |-> Some(slot)]

NoProxy == [cls |-> "", controller |-> FALSE, container |-> NoContainer, slot |-> NoSlot]

\* Variant: the link to the controller is kept
detach_keep_controller(p) == [p EXCEPT !.container = NoContainer, !.slot = NoSlot]

\* delete, lines 103-105: container, slot and controller set to None
detach(p) == [p EXCEPT !.container = NoContainer, !.slot = NoSlot, !.controller = FALSE]

\* The addresses of a chain and of the containers above it
Ancestry(chain) == {SubSeq(chain, 1, k) : k \in 1..Len(chain)}

\* The proxies create_object hands out, each with the device as that call
\* left it: the object and the containers above it exist
HeldProxies ==
    {[proxy |-> HeldProxy(cls, container, slot),
      objs |-> Ancestry(id_chain_for(container, slot))] :
        cls \in UserClasses, container \in Containers, slot \in Slots}

\* obj.delete()
ProxyDelete ==
    /\ area = "proxy"
    /\ LET c == [op |-> "delete", proxy |-> proxy]
           end(lg, res, o, p) ==
               /\ Done(c, lg, res)
               /\ objs' = o
               /\ proxy' = p
               /\ UNCHANGED <<area, profiles, active, sysId, idPool, lastActivate>>
       IN  IF ~proxy.controller THEN end(<<>>, Ok(<<>>), objs, proxy)
           ELSE IF ~proxy.container.some THEN end(<<>>, Raise("AttributeError", "id_chain"), objs, proxy)
           ELSE LET chain == obj_id_chain(Proxy(proxy.cls, proxy.container.v, proxy.slot.v))
                IN  \E d \in DevDeleteObject(objs, chain) :
                       LET lg == <<Req("delete_object", chain, 0, <<>>, d.resp)>>
                           h == handle_error(d.resp, FALSE)
                       IN  IF h.raises
                           THEN end(lg, Raise(h.exc, "_delete_object_at"), d.objs, proxy)
                           ELSE end(lg, Ok(<<>>), d.objs, detach(proxy))

---------------------------------------------------------------------------
(* System objects, initialize and reset *)

SystemDone(c, lg, res, sid, pool) ==
    /\ Done(c, lg, res)
    /\ sysId' = sid
    /\ idPool' = pool
    /\ UNCHANGED <<area, objs, profiles, active, lastActivate, proxy>>

\* read_system_value(obj)
ReadSystemValue ==
    /\ area = "system"
    /\ \E obj \in {system_id, system_time} :
          LET chain == obj_id_chain(obj)
              c == [op |-> "read_system_value", obj |-> obj]
          IN  \E r \in DevReadSystemValue(sysId, chain, encoded_len(obj.cls)) :
                LET lg == <<Req("read_system_value", chain, encoded_len(obj.cls), <<>>, r)>>
                    f == fetch_data_block(r)
                    v == decode_or_raise(obj.cls, f.value)
                IN  IF f.raises THEN SystemDone(c, lg, Raise(f.exc, "_fetch_data_block"), sysId, idPool)
                    ELSE IF v.raises THEN SystemDone(c, lg, Raise(v.exc, "decode"), sysId, idPool)
                    ELSE SystemDone(c, lg, Ok(v.value), sysId, idPool)

\* write_system_value(obj, value)
WriteSystemValue ==
    /\ area = "system"
    /\ \E a \in SystemWriteArgs :
          LET c == [op |-> "write_system_value", obj |-> a[1], value |-> a[2]]
          IN  \E d \in DevWriteSystemValue(sysId, obj_id_chain(a[1]), encode(a[1].cls, a[2])) :
                LET w == write_value("write_system_value", a[1], a[2], d.resp)
                IN  SystemDone(c, w.log, w.result, d.sysId, idPool)

\* Variant: 0 taken for the sentinel of an uninitialized id
needs_fetch_zero(current_id) == current_id[1] = 0

\* initialize, line 486: `int(current_id[0]) == 0xFF`
needs_fetch(current_id) == current_id[1] = 255

\* initialize(fetch_id)
Initialize ==
    /\ area = "system"
    /\ LET c == [op |-> "initialize"]
       IN  \E r \in DevReadSystemValue(sysId, obj_id_chain(system_id), encoded_len("SystemID")) :
             LET lg1 == <<Req("read_system_value", obj_id_chain(system_id), encoded_len("SystemID"), <<>>, r)>>
                 f == fetch_data_block(r)
             IN  IF f.raises THEN SystemDone(c, lg1, Raise(f.exc, "_fetch_data_block"), sysId, idPool)
                 ELSE \E fresh \in FreshIds :
                        LET stored == decode("SystemID", f.value)
                            current_id == IF needs_fetch(stored) THEN <<fresh>> ELSE stored
                            lg2 == IF needs_fetch(stored)
                                   THEN Append(lg1, Req("fetch_id", <<>>, 0, <<>>, Data(<<fresh>>))) ELSE lg1
                        IN  \E d \in DevWriteSystemValue(sysId, obj_id_chain(system_id), encode("SystemID", current_id)) :
                              LET w == write_value("write_system_value", system_id, current_id, d.resp)
                                  lg3 == lg2 \o w.log
                              IN  IF w.result.status = "raised"
                                  THEN SystemDone(c, lg3, w.result, d.sysId, idPool)
                                  ELSE SystemDone(c, lg3, Ok(current_id), d.sysId, idPool)

\* reset, lines 545-547: `1 if erase_eeprom else 0 or 2 if hard_reset else 0`
\* is the conditional  1 if erase_eeprom else ((0 or 2) if hard_reset else 0)
reset_flags(erase_eeprom, hard_reset) ==
    IF erase_eeprom THEN 1 ELSE (IF hard_reset THEN 2 ELSE 0)

\* Variant: the id is returned on every reset
reset_returns_id_always(erase_eeprom) == TRUE

\* reset, line 542: `if erase_eeprom:` guards the return of the id
reset_returns_id(erase_eeprom) == erase_eeprom

\* reset, lines 545-547: the reset request itself
reset_send(c, lg, pool) ==
    LET flags == reset_flags(c.erase_eeprom, c.hard_reset)
        cur == [objs |-> objs, profiles |-> profiles, active |-> active, sysId |-> sysId]
    IN  \E d \in DevReset(cur, flags) :
           LET lg2 == Append(lg, Req("reset", <<>>, flags, <<>>, d.resp))
               h == handle_error(d.resp, FALSE)
           IN  /\ Done(c, lg2, IF h.raises THEN Raise(h.exc, "reset") ELSE Ok(<<>>))
               /\ objs' = d.dev.objs
               /\ profiles' = d.dev.profiles
               /\ active' = d.dev.active
               /\ sysId' = d.dev.sysId
               /\ idPool' = pool
               /\ lastActivate' = -2
               /\ UNCHANGED <<area, proxy>>

\* reset(erase_eeprom, hard_reset)
Reset ==
    /\ area = "system"
    /\ \E erase_eeprom \in BOOLEAN, hard_reset \in BOOLEAN :
          LET c == [op |-> "reset", erase_eeprom |-> erase_eeprom, hard_reset |-> hard_reset]
          IN  IF reset_returns_id(erase_eeprom)
              THEN \E r \in DevReadSystemValue(sysId, obj_id_chain(system_id), encoded_len("SystemID")) :
                     LET lg1 == <<Req("read_system_value", obj_id_chain(system_id),
                                      encoded_len("SystemID"), <<>>, r)>>
                         f == fetch_data_block(r)
                     IN  IF f.raises
                         THEN SystemDone(c, lg1, Raise(f.exc, "_fetch_data_block"), sysId, idPool)
                         ELSE LET current_id == decode("SystemID", f.value)
                              IN  reset_send(c, Append(lg1, Req("return_id", <<>>, 0, current_id, Code(0))),
                                             idPool \cup {current_id[1]})
              ELSE reset_send(c, <<>>, idPool)

---------------------------------------------------------------------------
(* Profiles and listings *)

ProfilesDone(c, lg, res, ps, act, la) ==
    /\ Done(c, lg, res)
    /\ profiles' = ps
    /\ active' = act
    /\ lastActivate' = la
    /\ UNCHANGED <<area, objs, sysId, idPool, proxy>>

\* create_profile()
CreateProfile ==
    /\ area = "profiles"
    /\ LET c == [op |-> "create_profile"]
       IN  \E d \in DevCreateProfile(profiles) :
             LET lg == <<Req("create_profile", <<>>, 0, <<>>, d.resp)>>
                 h == handle_error(d.resp, FALSE)
             IN  IF h.raises THEN ProfilesDone(c, lg, Raise(h.exc, "create_profile"), d.profiles, active, -2)
                 ELSE ProfilesDone(c, lg, Ok(profile_for(h.value)), d.profiles, active, -2)

\* delete_profile(p)
DeleteProfile ==
    /\ area = "profiles"
    /\ \E p \in ProfileArgs :
          LET c == [op |-> "delete_profile", p |-> p]
          IN  \E d \in DevDeleteProfile(profiles, active, p.profile_id) :
                LET lg == <<Req("delete_profile", <<>>, p.profile_id, <<>>, d.resp)>>
                    h == handle_error(d.resp, FALSE)
                IN  ProfilesDone(c, lg, IF h.raises THEN Raise(h.exc, "delete_profile") ELSE Ok(<<>>),
                                 d.profiles, d.active, -2)

\* activate_profile(p), p a profile or None
ActivateProfile ==
    /\ area = "profiles"
    /\ \E p \in ProfileArgs \cup {NoProfile} :
          LET c == [op |-> "activate_profile", p |-> p]
          IN  \E d \in DevActivateProfile(profiles, active, id_for(p)) :
                LET lg == <<Req("activate_profile", <<>>, id_for(p), <<>>, d.resp)>>
                    h == handle_error(d.resp, FALSE)
                IN  IF h.raises THEN ProfilesDone(c, lg, Raise(h.exc, "activate_profile"), profiles, d.active, -2)
                    ELSE ProfilesDone(c, lg, Ok(<<>>), profiles, d.active,
                                      IF p.some THEN p.profile_id ELSE -1)

\* active_and_available_profiles(), after the round trip: data[0], data[1:]
active_and_available_profiles(resp) ==
    IF resp.none THEN Throws("TypeError")
    ELSE IF resp.data = <<>> THEN Throws("IndexError")
    ELSE Returns([active |-> profile_for(resp.data[1]),
                  available |-> [i \in 1..(Len(resp.data) - 1) |-> profile_for(resp.data[i + 1])]])

ActiveAndAvailableProfiles ==
    /\ area = "profiles"
    /\ LET c == [op |-> "active_and_available_profiles"]
       IN  \E r \in DevListProfiles(profiles, active) :
             LET lg == <<Req("list_profiles", <<>>, 0, <<>>, r)>>
                 a == active_and_available_profiles(r)
             IN  ProfilesDone(c, lg, IF a.raises THEN Raise(a.exc, "active_and_available_profiles")
                                     ELSE Ok(a.value),
                              profiles, active, lastActivate)

\* is_active_profile, line 534
is_active(act, p) == IF ~act.some THEN FALSE ELSE act.profile_id = p.profile_id

IsActiveProfile ==
    /\ area = "profiles"
    /\ \E p \in ProfileArgs :
          LET c == [op |-> "is_active_profile", p |-> p]
          IN  \E r \in DevListProfiles(profiles, active) :
                LET lg == <<Req("list_profiles", <<>>, 0, <<>>, r)>>
                    a == active_and_available_profiles(r)
                IN  ProfilesDone(c, lg, IF a.raises THEN Raise(a.exc, "active_and_available_profiles")
                                        ELSE Ok(is_active(a.value.active, p)),
                                 profiles, active, lastActivate)

\* Variant: only the active profile is deleted
full_erase_targets_active(avail) ==
    IF avail.active.some THEN <<avail.active>> ELSE <<>>

\* full_erase, line 494: `for p in available[1]`
full_erase_targets(avail) == avail.available

\* full_erase, lines 494-495: delete_profile(p) for each p in turn, stopping at
\* the first one that raises.  The outcomes: the requests sent, how the loop
\* ended and the device state it leaves.
RECURSIVE delete_each(_, _, _, _)
delete_each(todo, ps, act, lg) ==
    IF todo = <<>>
    THEN {[log |-> lg, result |-> Ok(<<>>), profiles |-> ps, active |-> act]}
    ELSE UNION {
           LET lg2 == Append(lg, Req("delete_profile", <<>>, Head(todo).profile_id, <<>>, d.resp))
               h == handle_error(d.resp, FALSE)
           IN  IF h.raises
               THEN {[log |-> lg2, result |-> Raise(h.exc, "delete_profile"),
                      profiles |-> d.profiles, active |-> d.active]}
               ELSE delete_each(Tail(todo), d.profiles, d.active, lg2)
           : d \in DevDeleteProfile(ps, act, Head(todo).profile_id)}

\* full_erase()
FullErase ==
    /\ area = "profiles"
    /\ LET c == [op |-> "full_erase"]
       IN  \E r \in DevListProfiles(profiles, active) :
             LET lg == <<Req("list_profiles", <<>>, 0, <<>>, r)>>
                 a == active_and_available_profiles(r)
             IN  IF a.raises
                 THEN ProfilesDone(c, lg, Raise(a.exc, "active_and_available_profiles"),
                                   profiles, active, lastActivate)
                 ELSE \E o \in delete_each(full_erase_targets(a.value), profiles, active, lg) :
                        ProfilesDone(c, o.log, o.result, o.profiles, o.active, -2)

\* ObjectReference(controller, container, slot, obj_class, args)
ObjectReference(container, slot, obj_class, args) ==
    [container |-> container, slot |-> slot, obj_class |-> obj_class, args |-> args]

\* _materialize_object_descriptor(id_chain, obj_type, data)
materialize_object_descriptor(d) ==
    LET cs == container_chain_and_id(d.id_chain)
        container == container_for(cs[1])
        cls == from_id(d.obj_type)
        dec == IF d.data = <<>> THEN Returns(None)
               ELSE IF ~cls.some THEN Throws("AttributeError")
               ELSE LET x == decode_definition(cls.v, d.data)
                    IN  IF x.raises THEN x ELSE Returns(Some(x.value))
    IN  IF dec.raises THEN dec
        ELSE Returns(ObjectReference(container, cs[2], cls, dec.value))

\* list_objects(p), after the round trip
list_objects(resp) ==
    IF resp.none THEN Throws("TypeError")
    ELSE LET refs == [i \in 1..Len(resp.data) |-> materialize_object_descriptor(resp.data[i])]
         IN  IF \E i \in 1..Len(refs) : refs[i].raises
             THEN Throws(refs[CHOOSE i \in 1..Len(refs) :
                                /\ refs[i].raises
                                /\ \A j \in 1..(i - 1) : ~refs[j].raises].exc)
             ELSE Returns([i \in 1..Len(refs) |-> refs[i].value])

ListObjects ==
    /\ area = "profiles"
    /\ \E p \in ProfileArgs :
          LET c == [op |-> "list_objects", p |-> p]
          IN  \E r \in DevListProfile(p.profile_id) :
                LET lg == <<Req("list_profile", <<>>, p.profile_id, <<>>, r)>>
                    l == list_objects(r)
                IN  ProfilesDone(c, lg, IF l.raises THEN Raise(l.exc, "list_objects") ELSE Ok(l.value),
                                 profiles, active, lastActivate)

---------------------------------------------------------------------------
(* Client-side operations: addressing and the codecs.  They read nothing   *)
(* of the device or of the controller's state, so each run draws one call  *)
(* at the start and applies it once.                                       *)

Pending == [status |-> "pending", exc |-> "", site |-> "", value |-> <<>>]

AddressingCalls ==
    {[op |-> "container_for", id_chain |-> chain] : chain \in Chains}
    \cup {[op |-> "id_chain", obj |-> Proxy(cls, container_for(chain), slot)] :
            cls \in UserClasses, chain \in Chains, slot \in Slots}

CodecCalls ==
    {[op |-> "encode_decode", codec |-> "Byte", value |-> v] : v \in ByteValues}
    \cup {[op |-> "encode_decode", codec |-> "Short", value |-> v] : v \in ShortValues}
    \cup {[op |-> "encode_decode", codec |-> "Long", value |-> v] : v \in LongValues}
    \cup {[op |-> "definition", obj_class |-> a[1], args |-> a[2]] : a \in DefinitionArgs}
    \cup {[op |-> "system_time_encode", value |-> <<time, scale>>] :
            time \in LongValues, scale \in ShortValues}
    \cup {[op |-> "system_time_decode", buf |-> buf] : buf \in SystemTimeBuffers}

PureDone(res) ==
    /\ Done(call, <<>>, res)
    /\ UNCHANGED <<area, objs, profiles, active, sysId, idPool, lastActivate, proxy>>

\* container_for(id_chain)
ContainerFor ==
    /\ area = "addressing"
    /\ result = Pending
    /\ call.op = "container_for"
    /\ PureDone(Ok(container_for(call.id_chain)))

\* obj.id_chain of a contained object, its container the root or nested
IdChain ==
    /\ area = "addressing"
    /\ result = Pending
    /\ call.op = "id_chain"
    /\ PureDone(Ok(obj_id_chain(call.obj)))

\* An integer codec: encode the value and decode the buffer again
EncodeDecode ==
    /\ area = "codecs"
    /\ result = Pending
    /\ call.op = "encode_decode"
    /\ LET buf == codec_encode(call.codec, call.value)
       IN  PureDone(Ok([buf |-> buf, encoded_len |-> codec_len(call.codec),
                        back |-> codec_decode(call.codec, buf)]))

\* The definition round trip of create_object (lines 584-587) on its own
DefinitionRoundTrip ==
    /\ area = "codecs"
    /\ result = Pending
    /\ call.op = "definition"
    /\ LET def == definition(call.obj_class, call.args)
       IN  PureDone(IF def.raises
                    THEN [Raise(def.exc, def.site) EXCEPT !.value = [data |-> def.data, dec |-> def.dec]]
                    ELSE Ok([data |-> def.data, dec |-> def.dec]))

\* SystemTime.encode((time, scale)) and the decoding of the buffer it gives
SystemTimeEncodeDecode ==
    /\ area = "codecs"
    /\ result = Pending
    /\ call.op = "system_time_encode"
    /\ LET buf == encode("SystemTime", call.value)
       IN  PureDone(Ok([buf |-> buf, encoded_len |-> encoded_len("SystemTime"),
                        back |-> decode("SystemTime", buf)]))

\* SystemTime.decode(buf) of a 6-byte buffer
SystemTimeDecodeBuffer ==
    /\ area = "codecs"
    /\ result = Pending
    /\ call.op = "system_time_decode"
    /\ PureDone(Ok(decode("SystemTime", call.buf)))

---------------------------------------------------------------------------
(* The specification.  The operations on objects, on profiles and on the   *)
(* system objects read and write disjoint parts of the device, and value   *)
(* reads and writes leave the modelled device state alone, so a run        *)
(* exercises one of these groups; an erasing reset leaves the other parts  *)
(* as they start, empty.  A run of the proxy group starts with a proxy as   *)
(* create_object returned it; the client-side operations form two more     *)
(* groups.                                                                 *)

Init ==
    /\ area \in {"objects", "values", "profiles", "system", "proxy", "addressing", "codecs"}
    /\ \E h \in (IF area = "proxy" THEN HeldProxies ELSE {[proxy |-> NoProxy, objs |-> {}]}) :
          proxy = h.proxy /\ objs = h.objs
    /\ pending = 0
    /\ profiles = {}
    /\ active = -1
    /\ sysId \in (IF area = "system" THEN {255, 7} ELSE {7})
    /\ idPool = {}
    /\ lastActivate = -2
    /\ call \in (CASE area = "addressing" -> AddressingCalls
                   [] area = "codecs"     -> CodecCalls
                   [] OTHER               -> {[op |-> "none"]})
    /\ log = <<>>
    /\ result = (IF area \in {"addressing", "codecs"} THEN Pending ELSE Ok(<<>>))

Next ==
    \/ CreateObject
    \/ DeleteObject
    \/ NextSlot
    \/ ReadValue
    \/ WriteValue
    \/ ReadSystemValue
    \/ WriteSystemValue
    \/ Initialize
    \/ Reset
    \/ CreateProfile
    \/ DeleteProfile
    \/ ActivateProfile
    \/ ActiveAndAvailableProfiles
    \/ IsActiveProfile
    \/ ListObjects
    \/ FullErase
    \/ ProxyDelete
    \/ ContainerFor
    \/ IdChain
    \/ EncodeDecode
    \/ DefinitionRoundTrip
    \/ SystemTimeEncodeDecode
    \/ SystemTimeDecodeBuffer

Spec == Init /\ [][Next]_vars

---------------------------------------------------------------------------
(* Properties *)

IsNegative(resp) == ~resp.none /\ resp.code < 0

WriteCmds == {"write_value", "write_system_value"}

ErrorCodeCmds == {"create_object", "delete_object", "next_slot", "create_profile",
                  "delete_profile", "activate_profile", "reset"}

\* Requests whose answer is a block of data that must not be empty
DataCmds == {"read_value", "write_value", "read_system_value", "write_system_value",
             "list_profiles"}

IdServiceCmds == {"fetch_id", "return_id"}

ValidationSites == {"encode_definition", "decode_definition", "mismatch"}

\* C1: every write the controller sends (write_value, write_system_value, and
\* the write inside initialize) carries the encoded value; when the echo is
\* absent or differs from the bytes sent the operation ends in
\* FailedOperationError and sends nothing more; it ends normally only when the
\* echo equals the bytes sent.  (The client holds no cached value: the model
\* has no client-side variable a write could change.)
C1_WriteVerified ==
    /\ call.op \in WriteCmds =>
          /\ Len(log) = 1
          /\ log[1].cmd = call.op
          /\ log[1].chain = id_chain(call.obj.container) \o <<call.obj.slot>>
          /\ log[1].data = encode(call.obj.cls, call.value)
    /\ \A i \in DOMAIN log :
          log[i].cmd \in WriteCmds =>
             /\ (log[i].resp.none \/ log[i].resp.data # log[i].data) =>
                   /\ result.status = "raised"
                   /\ result.exc = "FailedOperationError"
                   /\ i = Len(log)
             /\ result.status = "ok" => (~log[i].resp.none /\ log[i].resp.data = log[i].data)

C1_Witness ==
    /\ call.op = "write_value"
    /\ call.obj.cls = "PersistChangeValue"
    /\ log[1].data = <<254, 255>>
    /\ log[1].resp = Data(<<255, 255>>)
    /\ result.status = "raised"
    /\ result.site = "_write_value"

\* C2 (as claimed): whenever create_object fails with a validation failure
\* (encode_definition rejecting the arguments, or the decode(encode(args))
\* comparison), no request has been sent to the device.
C2_ValidationBeforeDevice ==
    (call.op = "create_object" /\ result.status = "raised" /\ result.site \in ValidationSites)
       => log = <<>>

\* C3: create_object with a slot sends delete_object for
\* container.id_chain ++ (slot) first and never next_slot, and a negative code
\* from that delete does not stop it (the create request follows unless the
\* arguments are invalid); without a slot it sends no delete, asks
\* next_slot(container) exactly once, first, and creates at the slot answered.
C3_SlotHandling ==
    call.op = "create_object" =>
       LET base == id_chain(call.container)
       IN  /\ Len(log) >= 1
           /\ IF call.slot.some
              THEN /\ log[1].cmd = "delete_object"
                   /\ log[1].chain = base \o <<call.slot.v>>
                   /\ \A i \in DOMAIN log :
                         /\ log[i].cmd # "next_slot"
                         /\ log[i].cmd = "delete_object" => i = 1
                         /\ log[i].cmd = "create_object" => i = 2
                   /\ IsNegative(log[1].resp) =>
                         /\ ~(result.status = "raised" /\ result.site = "_delete_object_at")
                         /\ ~definition(call.obj_class, call.args).raises =>
                               (Len(log) = 2 /\ log[2].cmd = "create_object")
              ELSE /\ log[1].cmd = "next_slot"
                   /\ log[1].chain = base
                   /\ \A i \in DOMAIN log :
                         /\ log[i].cmd # "delete_object"
                         /\ log[i].cmd = "next_slot" => i = 1
                         /\ log[i].cmd = "create_object" =>
                               /\ i = 2
                               /\ ~log[1].resp.none
                               /\ log[i].chain = base \o <<log[1].resp.code>>

C3_Witness ==
    /\ call.op = "create_object"
    /\ call.slot = Some(0)
    /\ call.container = Container(RootContainer, 1)
    /\ IsNegative(log[1].resp)
    /\ Len(log) = 2
    /\ log[2].chain = <<1, 0>>
    /\ result.status = "ok"

\* C4: the create request carries container.id_chain ++ (slot), the type id of
\* the class and the encoded definition (empty when no arguments are given:
\* CurrentTicks is type 3 with an empty block; PersistChangeValue (100, 5)
\* sends 100,0,5,0); on success the proxy returned has the class asked for and
\* the id-chain of the create request.
C4_CreateRequest ==
    call.op = "create_object" =>
       /\ \A i \in DOMAIN log :
             log[i].cmd = "create_object" =>
                LET slot == IF call.slot.some THEN call.slot.v ELSE log[1].resp.code
                IN  /\ log[i].chain = id_chain(call.container) \o <<slot>>
                    /\ log[i].arg = type_id(call.obj_class)
                    /\ call.obj_class = "CurrentTicks" => (log[i].arg = 3 /\ log[i].data = <<>>)
                    /\ ~call.args.some => log[i].data = <<>>
                    /\ call.args.some =>
                          log[i].data = encode_definition(call.obj_class, call.args.v).value
                    /\ (call.obj_class = "PersistChangeValue" /\ call.args.v = <<100, 5>>) =>
                          (log[i].arg = 9 /\ log[i].data = <<100, 0, 5, 0>>)
                    /\ result.status = "ok" =>
                          /\ result.value.cls = call.obj_class
                          /\ id_chain(result.value.container) \o <<result.value.slot>> = log[i].chain
       /\ result.status = "ok" => log[Len(log)].cmd = "create_object"

C4_Witness ==
    /\ call.op = "create_object"
    /\ call.obj_class = "PersistChangeValue"
    /\ call.args = Some(<<100, 5>>)
    /\ ~call.slot.some
    /\ call.container = Container(RootContainer, 1)
    /\ Len(log) = 2
    /\ log[1].resp = Code(1)
    /\ log[2].chain = <<1, 1>>
    /\ log[2].data = <<100, 0, 5, 0>>
    /\ result.status = "ok"

\* C5: a negative code answered to create_object, delete_object, next_slot,
\* create_profile, delete_profile, activate_profile or reset ends the operation
\* in FailedOperationError with no later request; the one exception is the
\* delete that create_object sends first to clear the slot.
C5_NegativeCodeRaises ==
    \A i \in DOMAIN log :
       (log[i].cmd \in ErrorCodeCmds /\ IsNegative(log[i].resp)) =>
          \/ (call.op = "create_object" /\ log[i].cmd = "delete_object" /\ i = 1)
          \/ (result.status = "raised" /\ result.exc = "FailedOperationError" /\ i = Len(log))

C5_Witness ==
    /\ call.op = "delete_object"
    /\ obj_id_chain(call.obj) \in objs
    /\ IsNegative(log[1].resp)
    /\ result.exc = "FailedOperationError"

\* C6: when a device request resolves to absence (a timeout), or to an empty
\* block where a block of data is expected (value reads and writes, the profile
\* listing), the operation ends in a failure and sends nothing more; this
\* covers the tolerated delete of create_object.  (An empty answer to
\* list_profile is the listing of a profile without objects.)
C6_AbsentIsFailure ==
    \A i \in DOMAIN log :
       (/\ log[i].cmd \notin IdServiceCmds
        /\ \/ log[i].resp.none
           \/ (log[i].cmd \in DataCmds /\ log[i].resp.data = <<>>))
          => (result.status = "raised" /\ i = Len(log))

C6_Witness ==
    /\ call.op = "create_object"
    /\ call.slot.some
    /\ log[1].cmd = "delete_object"
    /\ log[1].resp.none
    /\ Len(log) = 1
    /\ result.status = "raised"

\* C7: an erasing reset reads the system id (system slot 0) and returns that id
\* to the pool before the reset request is sent; a reset that does not erase
\* neither reads the id nor returns it.
C7_ResetOrdering ==
    call.op = "reset" =>
       IF call.erase_eeprom
       THEN /\ Len(log) >= 1
            /\ log[1].cmd = "read_system_value"
            /\ log[1].chain = <<0>>
            /\ \A i \in DOMAIN log :
                  /\ log[i].cmd = "return_id" =>
                        (i = 2 /\ log[i].data = log[1].resp.data /\ log[i].data[1] \in idPool)
                  /\ log[i].cmd = "reset" => (i = 3 /\ log[2].cmd = "return_id")
       ELSE \A i \in DOMAIN log : log[i].cmd \notin {"read_system_value", "return_id"}

C7_Witness ==
    /\ call.op = "reset"
    /\ call.erase_eeprom
    /\ Len(log) = 3
    /\ log[1].resp = Data(<<7>>)
    /\ 7 \in idPool
    /\ result.status = "ok"
    /\ sysId = 255

\* C8 (as claimed): the flags of the reset request are
\* (1 if erase_eeprom else 0) + (2 if hard_reset else 0).
C8_FlagsPackBothBits ==
    call.op = "reset" =>
       \A i \in DOMAIN log :
          log[i].cmd = "reset" =>
             log[i].arg = (IF call.erase_eeprom THEN 1 ELSE 0) + (IF call.hard_reset THEN 2 ELSE 0)

\* C9: initialize reads the one-byte id at system slot 0; the id service is
\* asked if and only if that id is 0xFF; the value returned is the fresh id in
\* that case and the stored id otherwise; after a successful initialize the
\* device stores the id returned.
C9_Initialize ==
    call.op = "initialize" =>
       /\ Len(log) >= 1
       /\ log[1].cmd = "read_system_value"
       /\ log[1].chain = <<0>>
       /\ log[1].arg = 1
       /\ LET read_ok == ~log[1].resp.none /\ log[1].resp.data # <<>>
              fetched == \E i \in DOMAIN log : log[i].cmd = "fetch_id"
          IN  /\ fetched <=> (read_ok /\ log[1].resp.data[1] = 255)
              /\ result.status = "ok" =>
                    /\ read_ok
                    /\ result.value = (IF log[1].resp.data[1] = 255
                                       THEN log[2].resp.data ELSE log[1].resp.data)
                    /\ sysId = result.value[1]

C9_Witness ==
    /\ call.op = "initialize"
    /\ log[1].resp = Data(<<255>>)
    /\ Len(log) = 3
    /\ log[2].cmd = "fetch_id"
    /\ result.status = "ok"
    /\ result.value = <<8>>
    /\ sysId = 8

\* C10: after activate_profile(p) has succeeded, with no other profile-changing
\* operation since, is_active_profile(q) answers true for q = p and false for
\* every other profile, profile 0 included; after activate_profile(None) it
\* answers false for every profile and active_and_available_profiles reports
\* no active profile.
C10_ProfileExclusivity ==
    (lastActivate # -2 /\ result.status = "ok") =>
       /\ call.op = "is_active_profile" =>
             result.value = (lastActivate # -1 /\ call.p.profile_id = lastActivate)
       /\ call.op = "active_and_available_profiles" =>
             /\ result.value.active.some <=> lastActivate # -1
             /\ result.value.active.some => result.value.active.profile_id = lastActivate

C10_Witness ==
    /\ call.op = "is_active_profile"
    /\ lastActivate = 0
    /\ call.p = Profile(0)
    /\ profiles = {0, 1}
    /\ result.status = "ok"
    /\ result.value = TRUE

Applied(op) == call.op = op /\ result # Pending

\* C12: the controller's two root containers have the empty id-chain and the
\* root gives slot s the id-chain (s); the id-chain of a contained object is
\* its container's id-chain followed by its slot; for every id-chain c, the
\* empty one included, container_for(c) has id-chain c, and container_for
\* sends no request.
C12_Addressing ==
    /\ id_chain(root_container) = <<>>
    /\ id_chain(sysroot) = <<>>
    /\ Applied("container_for") =>
          /\ log = <<>>
          /\ result.status = "ok"
          /\ id_chain(result.value) = call.id_chain
    /\ Applied("id_chain") =>
          /\ log = <<>>
          /\ result.value = id_chain(call.obj.container) \o <<call.obj.slot>>
          /\ call.obj.container.kind = "root" => result.value = <<call.obj.slot>>

C12_Witness ==
    /\ call.op = "container_for"
    /\ result.status = "ok"
    /\ call.id_chain = <<1, 0>>
    /\ result.value = Container(Container(RootContainer, 1), 0)
    /\ log = <<>>

\* Byte i (from 0) of the two's-complement representation of v
TwosComplementByte(v, i) == (v \div (256 ^ i)) % 256

\* C13: for the Byte, Short and Long codecs and every value of their range,
\* the encoded buffer has encoded_len() bytes (1, 2, 4), byte i of it is byte i
\* of the two's-complement representation (least significant first), and
\* decoding it gives the value back.
C13_IntegerRoundTrip ==
    Applied("encode_decode") =>
       /\ result.value.encoded_len = (CASE call.codec = "Byte" -> 1
                                       [] call.codec = "Short" -> 2
                                       [] call.codec = "Long" -> 4)
       /\ Len(result.value.buf) = result.value.encoded_len
       /\ \A i \in 1..Len(result.value.buf) :
             result.value.buf[i] = TwosComplementByte(call.value, i - 1)
       /\ result.value.back = call.value

C13_Witness ==
    /\ call.op = "encode_decode"
    /\ result.status = "ok"
    /\ call.codec = "Long"
    /\ call.value = -2147483647 - 1
    /\ result.value.buf = <<0, 0, 0, 128>>
    /\ result.value.back = call.value

IsShort(v) == -32768 <= v /\ v <= 32767

\* The arguments the claim counts as valid for a class
ValidArgs(obj_class, args) ==
    CASE obj_class \in {"CurrentTicks", "DynamicContainer"} -> ~args.some
      [] obj_class = "PersistentValue" -> args.some /\ args.v # <<>>
      [] obj_class = "PersistChangeValue" -> args.some /\ args.v[2] >= 0

RoundTripHolds ==
    /\ result.status = "ok"
    /\ result.value.dec = call.args.v
    /\ ~call.args.some => result.value.data = <<>>
    /\ call.obj_class = "PersistentValue" => result.value.data = call.args.v
    /\ call.obj_class = "PersistChangeValue" =>
          result.value.data = <<TwosComplementByte(call.args.v[1], 0),
                                TwosComplementByte(call.args.v[1], 1),
                                TwosComplementByte(call.args.v[2], 0),
                                TwosComplementByte(call.args.v[2], 1)>>

C15_SystemTimeLayout ==
    /\ Applied("system_time_encode") =>
          LET time == call.value[1]
              scale == call.value[2]
              buf == result.value.buf
          IN  /\ result.value.encoded_len = 6
              /\ Len(buf) = 6
              /\ buf = LongEncode(time) \o ShortEncode(scale)
              /\ \A i \in 1..4 : buf[i] = TwosComplementByte(time, i - 1)
              /\ \A i \in 1..2 : buf[4 + i] = TwosComplementByte(scale, i - 1)
              /\ result.value.back = call.value
    /\ Applied("system_time_decode") =>
          LET b == call.buf
          IN  /\ result.value = <<LongDecode(SubSeq(b, 1, 4)), ShortDecode(SubSeq(b, 5, 6))>>
              /\ result.value[1] = b[1] + 256 * b[2] + 65536 * b[3]
                                      + 16777216 * (IF b[4] >= 128 THEN b[4] - 256 ELSE b[4])
              /\ result.value[2] = b[5] + 256 * (IF b[6] >= 128 THEN b[6] - 256 ELSE b[6])

C15_Witness ==
    /\ call.op = "system_time_encode"
    /\ result.status = "ok"
    /\ call.value = <<-1, -32768>>
    /\ result.value.buf = <<255, 255, 255, 255, 0, 128>>
    /\ result.value.back = <<-1, -32768>>

\* C16 (as claimed): when the id that initialize reads is not 0xFF, initialize
\* sends no write request and returns the stored id whatever the device would
\* answer to a write.
C16_WritesOnlyWhenSentinel ==
    (/\ call.op = "initialize"
     /\ Len(log) >= 1
     /\ ~log[1].resp.none
     /\ log[1].resp.data # <<>>
     /\ log[1].resp.data[1] # 255)
       => /\ \A i \in DOMAIN log : log[i].cmd \notin WriteCmds
          /\ result.status = "ok"

\* C17: when delete() of an attached proxy succeeds it has sent one
\* delete_object for the proxy's id-chain and the proxy's container, slot and
\* controller are all cleared; delete() of a proxy that is already detached
\* sends nothing; when the device delete fails the failure is raised and the
\* three fields are what they were, the proxy still attached.
C17_ProxyDetachment ==
    call.op = "delete" =>
       /\ (call.proxy.controller /\ result.status = "ok") =>
             /\ Len(log) = 1
             /\ log[1].cmd = "delete_object"
             /\ log[1].chain = id_chain(call.proxy.container.v) \o <<call.proxy.slot.v>>
             /\ ~proxy.controller
             /\ ~proxy.container.some
             /\ ~proxy.slot.some
       /\ ~call.proxy.controller =>
             /\ log = <<>>
             /\ proxy = call.proxy
       /\ result.status = "raised" =>
             /\ Len(log) = 1
             /\ (log[1].resp.none \/ log[1].resp.code < 0)
             /\ proxy = call.proxy
             /\ proxy.controller
             /\ proxy.container.some
             /\ proxy.slot.some

\* A second delete() on a proxy that a first one detached
C17_Witness ==
    /\ call.op = "delete"
    /\ call.proxy.cls = "PersistentValue"
    /\ ~call.proxy.controller
    /\ ~call.proxy.container.some
    /\ ~call.proxy.slot.some
    /\ log = <<>>
    /\ result.status = "ok"
    /\ objs = {<<1>>}

\* C18 (as claimed): read_value and read_system_value send one request, for
\* encoded_len() bytes at the id-chain of the object, and when the answer to a
\* class of fixed width (encoded_len() > 0) has another length, shorter or
\* longer, the operation ends in a failure.
C18_ExactLengthReads ==
    call.op \in {"read_value", "read_system_value"} =>
       /\ Len(log) = 1
       /\ log[1].cmd = call.op
       /\ log[1].chain = id_chain(call.obj.container) \o <<call.obj.slot>>
       /\ log[1].arg = encoded_len(call.obj.cls)
       /\ (/\ encoded_len(call.obj.cls) > 0
           /\ ~log[1].resp.none
           /\ Len(log[1].resp.data) # encoded_len(call.obj.cls))
             => result.status = "raised"

\* C19 (as claimed): when list_objects returns, it returns one reference for
\* each (id-chain, type id, definition block) triple of the device's answer, in
\* order; the reference's container and slot give back the id-chain, its type
\* is the registry's class for the type id and never the unresolved None, and
\* its args are the decoded definition block, or none when the block is empty.
C19_Materialization ==
    (call.op = "list_objects" /\ result.status = "ok") =>
       /\ ~log[1].resp.none
       /\ Len(result.value) = Len(log[1].resp.data)
       /\ \A i \in DOMAIN result.value :
             LET d == log[1].resp.data[i]
                 r == result.value[i]
             IN  /\ id_chain(r.container) \o <<r.slot>> = d.id_chain
                 /\ r.obj_class.some
                 /\ type_id(r.obj_class.v) = d.obj_type
                 /\ r.args = (IF d.data = <<>> THEN None
                              ELSE Some(decode_definition(r.obj_class.v, d.data).value))

\* C20 (as claimed): a request that times out is deregistered as the call gives
\* up on it, so that no timed-out request is ever left in the transport's table
\* of pending requests.
C20_TimeoutDeregisters == pending = 0

\* C21 (as claimed): an erasing reset has returned the system id to the pool
\* only if the device accepted the reset request; when the erasing reset fails,
\* the id the device still holds is not in the pool.
C21_IdPoolSafety ==
    (call.op = "reset" /\ call.erase_eeprom) =>
       /\ (\E i \in DOMAIN log : log[i].cmd = "return_id")
             => \E j \in DOMAIN log :
                   /\ log[j].cmd = "reset"
                   /\ ~log[j].resp.none
                   /\ log[j].resp.code >= 0
       /\ result.status = "raised"
             => ~\E i \in DOMAIN log :
                    /\ log[i].cmd = "return_id"
                    /\ log[i].data = <<sysId>>
                    /\ sysId \in idPool

\* C22 (as claimed): when create_object with a given slot fails (validation,
\* a negative code from the device create, or a timeout) it returns no proxy
\* and the object the device held at that slot before the call is still there:
\* a delete_object the device carried out (answer 0) is not left standing.
C22_FailedReplaceKeepsObject ==
    (call.op = "create_object" /\ call.slot.some /\ result.status = "raised") =>
       /\ result.value = <<>>
       /\ \A i \in DOMAIN log :
             (log[i].cmd = "delete_object" /\ log[i].resp = Code(0))
                => log[i].chain \in objs

====
